---- MODULE Spec2Model ----
(***************************************************************************)
(* A model of CASP's StaticProfileExporterPass (lib/StaticProfileExporter  *)
(* .cpp) and of the tail of the casp-tool driver (lib/casp-tool.cpp).      *)
(*                                                                         *)
(* uint64_t values are kept at their width: a value is a little-endian     *)
(* sequence of four 16-bit limbs, and the arithmetic the code performs on  *)
(* them (multiply, wrap modulo 2^64, divide, compare) is done on limbs.    *)
(***************************************************************************)
EXTENDS Integers, Sequences, FiniteSets, TLC

VARIABLES pc, ProfilePath, NumFuncs, visited, F, conv, Record,
          FunctionsProcessed, FunctionsSkipped, submitted, bfiRequests,
          output, retval, toolMessage, exitCode

vars == <<pc, ProfilePath, NumFuncs, visited, F, conv, Record,
          FunctionsProcessed, FunctionsSkipped, submitted, bfiRequests,
          output, retval, toolMessage, exitCode>>

(***************************************************************************)
(* Bounds of the model.                                                    *)
(***************************************************************************)
\* Largest number of basic blocks of a function handed to convertBFIToCounts.
MaxBlocks == 3
\* Largest counter count read from a __profd_ record.
MaxHint == 14
\* Largest number of functions in the module M.
MaxFuncs == 2

(***************************************************************************)
(* uint64_t arithmetic on limbs.                                           *)
(***************************************************************************)
\* One limb holds 16 bits; a uint64_t has four limbs.
LimbBase == 2^16
U64Limbs == 4

\* The limbs of the natural number n (n below 2^31), k limbs wide.
RECURSIVE ToLimbs(_, _)
ToLimbs(n, k) ==
    IF k = 0 THEN <<>> ELSE <<n % LimbBase>> \o ToLimbs(n \div LimbBase, k - 1)

U64(n) == ToLimbs(n, U64Limbs)

\* x widened with zero limbs to k limbs.
RECURSIVE Zeros(_)
Zeros(k) == IF k = 0 THEN <<>> ELSE <<0>> \o Zeros(k - 1)

Widen(x, k) == x \o Zeros(k - Len(x))

\* x reduced modulo LimbBase^k: what storing into a k-limb integer keeps.
Wrap(x, k) == SubSeq(x, 1, k)

IsZero(x) == \A i \in 1..Len(x) : x[i] = 0

\* a < b, for a and b of the same number of limbs.
RECURSIVE LessFrom(_, _, _)
LessFrom(a, b, i) ==
    IF i = 0 THEN FALSE
    ELSE IF a[i] # b[i] THEN a[i] < b[i]
    ELSE LessFrom(a, b, i - 1)

Less(a, b) == LessFrom(a, b, Len(a))

\* a - b for a >= b, same number of limbs.
RECURSIVE SubFrom(_, _, _, _)
SubFrom(a, b, i, borrow) ==
    IF i > Len(a) THEN <<>>
    ELSE LET t == a[i] - b[i] - borrow
         IN  IF t < 0 THEN <<t + LimbBase>> \o SubFrom(a, b, i + 1, 1)
             ELSE <<t>> \o SubFrom(a, b, i + 1, 0)

Sub(a, b) == SubFrom(a, b, 1, 0)

\* x * m for a small factor m, exact: one limb wider than x.
RECURSIVE MulFrom(_, _, _, _)
MulFrom(x, m, i, carry) ==
    IF i > Len(x) THEN <<carry>>
    ELSE LET t == x[i] * m + carry
         IN  <<t % LimbBase>> \o MulFrom(x, m, i + 1, t \div LimbBase)

MulSmall(x, m) == MulFrom(x, m, 1, 0)

\* Bit i (0 = least significant) of x.
Bit(x, i) == (x[(i \div 16) + 1] \div 2^(i % 16)) % 2

\* 2 * a + b modulo LimbBase^Len(a), b a bit.
RECURSIVE ShlFrom(_, _, _)
ShlFrom(a, i, carry) ==
    IF i > Len(a) THEN <<>>
    ELSE <<(2 * a[i] + carry) % LimbBase>>
            \o ShlFrom(a, i + 1, (2 * a[i] + carry) \div LimbBase)

Shl1(a, b) == ShlFrom(a, 1, b)

\* Binary long division of x by e (e # 0, widened by one limb). st is the
\* pair <<r, q>>: r the running remainder, one limb wider than x so that
\* 2r+1 fits, q the quotient so far. DivBits consumes bits i down to stop.
RECURSIVE DivBits(_, _, _, _, _)
DivBits(x, e, i, stop, st) ==
    IF i < stop THEN st
    ELSE LET r2 == Shl1(st[1], Bit(x, i))
         IN  IF Less(r2, e)
             THEN DivBits(x, e, i - 1, stop, <<r2, Shl1(st[2], 0)>>)
             ELSE DivBits(x, e, i - 1, stop, <<Sub(r2, e), Shl1(st[2], 1)>>)

\* One limb of x at a time, from the most significant limb k down.
RECURSIVE DivLimbs(_, _, _, _)
DivLimbs(x, e, k, st) ==
    IF k = 0 THEN st
    ELSE DivLimbs(x, e, k - 1, DivBits(x, e, 16 * k - 1, 16 * (k - 1), st))

\* The most significant nonzero limb of x at or below k (0 when there is none).
RECURSIVE TopLimb(_, _)
TopLimb(x, k) == IF k = 0 \/ x[k] # 0 THEN k ELSE TopLimb(x, k - 1)

\* Long division of x by a divisor d below 2^15, limb k downwards with the
\* remainder rem carried: the quotient's limbs 1..k.
RECURSIVE ShortDivFrom(_, _, _, _)
ShortDivFrom(x, d, k, rem) ==
    IF k = 0 THEN <<>>
    ELSE LET cur == rem * LimbBase + x[k]
         IN  ShortDivFrom(x, d, k - 1, cur % d) \o <<cur \div d>>

\* e has one significant limb, and that limb is below 2^15.
IsShort(e) == e[1] < 2^15 /\ \A i \in 2..Len(e) : e[i] = 0

\* The quotient of x by e (e # 0), as wide as x: by limbs when e is short,
\* bit by bit otherwise. The limbs of x above its top nonzero limb leave r
\* and q at zero, so the binary division starts at that limb.
Div(x, e) ==
    LET n == Len(x)
    IN  IF IsShort(e) THEN ShortDivFrom(x, e[1], n, 0)
        ELSE DivLimbs(x, Widen(e, n + 1), TopLimb(x, n),
                      <<Zeros(n + 1), Zeros(n)>>)[2]

(***************************************************************************)
(* The program's constants.                                                *)
(***************************************************************************)
DefaultEntryCount == 100

(***************************************************************************)
(* The inputs: a function of the module M, with what the analyses and the  *)
(* module's globals say about it.                                          *)
(*   decl    F.isDeclaration()                                             *)
(*   name    the function's PGO name                                       *)
(*   blocks  BFI.getBlockFreq of each basic block, in the order `for (BB : *)
(*           F)` visits them; blocks[1] is the entry block                 *)
(*   profd   the global M.getNamedGlobal("__profd_" + name) finds          *)
(*   covrec  the global M.getNamedGlobal("__covrec_<namehash>u") finds     *)
(***************************************************************************)
\* std::optional
None == [some |-> FALSE, val |-> 0]
Some(v) == [some |-> TRUE, val |-> v]

\* A global variable of the module as the lookups see it: whether a global of
\* that name exists, whether its initializer is a ConstantStruct, and the
\* struct's operands (each a ConstantInt with a value, or something else).
NoGlobal == [present |-> FALSE, isStruct |-> FALSE, ops |-> <<>>]
NotAStruct == [present |-> TRUE, isStruct |-> FALSE, ops |-> <<>>]
IntOp(v) == [isInt |-> TRUE, val |-> v]
OtherOp == [isInt |-> FALSE, val |-> 0]
Struct(ops) == [present |-> TRUE, isStruct |-> TRUE, ops |-> ops]

\* __profd_<name>: { name_hash, cfg_hash, counter_ptr_offset, function_ptr,
\*                   values, num_value_sites, num_counters, ... }
ProfdWith(op6) ==
    Struct(<<IntOp(0), IntOp(0), IntOp(0), IntOp(0), OtherOp, OtherOp, op6>>)
ProfdTooShort ==
    Struct(<<IntOp(0), IntOp(0), IntOp(0), IntOp(0), OtherOp, OtherOp>>)

\* __covrec_<hash>u: { name_hash, data_size, struct_hash, ... }
CovRecWith(op2) == Struct(<<IntOp(0), IntOp(0), op2, IntOp(0)>>)
CovRecTooShort == Struct(<<IntOp(0), IntOp(0)>>)

Function(decl, name, blocks, profd, covrec) ==
    [decl |-> decl, name |-> name, blocks |-> blocks,
     profd |-> profd, covrec |-> covrec]

NoFunction == Function(TRUE, "", <<>>, NoGlobal, NoGlobal)

\* Sequences over S of length 1..n.
SeqsUpTo(S, n) == UNION {[1..k -> S] : k \in 1..n}

\* Block frequencies the synthesis is exercised on: 0, 1, 3 and 2^64 - 1.
SynthFreqs ==
    {U64(0), U64(1), U64(3),
     <<LimbBase - 1, LimbBase - 1, LimbBase - 1, LimbBase - 1>>}

\* __profd_ globals: absent, malformed, or carrying a counter count.
SynthProfds ==
    {NoGlobal, ProfdTooShort, ProfdWith(OtherOp)}
        \cup {ProfdWith(IntOp(n)) : n \in 0..MaxHint}

\* What the driver's run is exercised on: declarations, and functions with a
\* zero-frequency entry, one block, or two blocks; with and without a counter
\* count; with every shape of coverage record tryExtractCoverageHash tells
\* apart.
DriverNames == {"f", "g"}
DriverBlocks == {<<U64(0)>>, <<U64(1)>>, <<U64(3), U64(1)>>}
DriverProfds == {NoGlobal, ProfdWith(IntOp(0)), ProfdWith(IntOp(2))}
DriverCovRecs ==
    {NoGlobal, NotAStruct, CovRecTooShort, CovRecWith(OtherOp),
     CovRecWith(IntOp(0)), CovRecWith(IntOp(7))}

DriverInputs ==
    {Function(TRUE, n, <<>>, NoGlobal, NoGlobal) : n \in DriverNames}
        \cup {Function(FALSE, n, b, p, c) :
                 n \in DriverNames, b \in DriverBlocks,
                 p \in DriverProfds, c \in DriverCovRecs}

SynthInputs ==
    {Function(FALSE, "f", b, p, NoGlobal) :
        b \in SeqsUpTo(SynthFreqs, MaxBlocks), p \in SynthProfds}

(***************************************************************************)
(* tryExtractCounterCount                                                  *)
(***************************************************************************)
tryExtractCounterCount(Fn) ==
    LET Profd == Fn.profd
    IN  IF /\ Profd.present
           /\ Profd.isStruct
           /\ Len(Profd.ops) > 6
           /\ Profd.ops[7].isInt
        THEN Some(Profd.ops[7].val)
        ELSE None

(***************************************************************************)
(* convertBFIToCounts                                                      *)
(***************************************************************************)
\* (DefaultEntryCount * BBFreq.getFrequency()) / EntryFreq.getFrequency(),
\* the product computed in uint64_t.
ScaledCount(BBFreq, EntryFreq) ==
    Div(Wrap(MulSmall(BBFreq, DefaultEntryCount), U64Limbs), EntryFreq)

\* A sort that leaves the order as it finds it.
SortDescUnsorted(s) == s

\* v put into the descending sequence s at its place.
RECURSIVE InsertDesc(_, _)
InsertDesc(v, s) ==
    IF s = <<>> THEN <<v>>
    ELSE IF Less(Head(s), v) THEN <<v>> \o s
    ELSE <<Head(s)>> \o InsertDesc(v, Tail(s))

\* std::sort(BlockFreqs.rbegin(), BlockFreqs.rend())
RECURSIVE SortDesc(_)
SortDesc(s) ==
    IF s = <<>> THEN <<>> ELSE InsertDesc(Head(s), SortDesc(Tail(s)))

\* Counter 0 taken from the sorted list instead of the entry count.
InstrumentedCountsUnpinned(BlockFreqs, InstrCounterCount) ==
    [i \in 1..InstrCounterCount |->
        IF i <= Len(BlockFreqs) THEN BlockFreqs[i]
        ELSE U64(DefaultEntryCount \div i)]

\* The padding divided by i instead of i + 1.
InstrumentedCountsPadByIndex(BlockFreqs, InstrCounterCount) ==
    <<U64(DefaultEntryCount)>> \o
    [i \in 1..(InstrCounterCount - 1) |->
        IF i < Len(BlockFreqs) THEN BlockFreqs[i + 1]
        ELSE U64(DefaultEntryCount \div i)]

\* The instrumented branch: counter 0 is the entry count, counter i takes
\* BlockFreqs[i] while there is one and DefaultEntryCount / (i + 1) after.
\* (Counts[i + 1] here is the code's Counts[i].)
InstrumentedCounts(BlockFreqs, InstrCounterCount) ==
    <<U64(DefaultEntryCount)>> \o
    [i \in 1..(InstrCounterCount - 1) |->
        IF i < Len(BlockFreqs) THEN BlockFreqs[i + 1]
        ELSE U64(DefaultEntryCount \div (i + 1))]

\* The zero-frequency check returning true instead of false.
convertBFIToCountsZeroReturnsTrue(Fn) ==
    LET EntryFreq == Fn.blocks[1]
        InstrCounterCount == tryExtractCounterCount(Fn)
        Scaled == [i \in 1..Len(Fn.blocks) |-> ScaledCount(Fn.blocks[i], EntryFreq)]
        Counts == IF InstrCounterCount.some
                  THEN InstrumentedCounts(SortDesc(Scaled), InstrCounterCount.val)
                  ELSE Scaled
    IN  IF IsZero(EntryFreq)
        THEN [ok |-> TRUE, Counts |-> <<>>, entryDivs |-> 0]
        ELSE [ok |-> Counts # <<>>, Counts |-> Counts,
              entryDivs |-> Len(Fn.blocks)]

\* The result: the bool returned, the vector left in Counts, and how many
\* divisions by EntryFreq were evaluated on the way.
convertBFIToCounts(Fn) ==
    LET EntryFreq == Fn.blocks[1]
        InstrCounterCount == tryExtractCounterCount(Fn)
        Scaled == [i \in 1..Len(Fn.blocks) |-> ScaledCount(Fn.blocks[i], EntryFreq)]
        Counts == IF InstrCounterCount.some
                  THEN InstrumentedCounts(SortDesc(Scaled), InstrCounterCount.val)
                  ELSE Scaled
    IN  IF IsZero(EntryFreq)
        THEN [ok |-> FALSE, Counts |-> <<>>, entryDivs |-> 0]
        ELSE [ok |-> Counts # <<>>, Counts |-> Counts,
              entryDivs |-> Len(Fn.blocks)]

NoConv == [ok |-> FALSE, Counts |-> <<>>, entryDivs |-> 0]
NoRecord == <<>>

(***************************************************************************)
(* The synthesis on its own: convertBFIToCounts applied to one function.   *)
(***************************************************************************)
SynthInit ==
    /\ pc = "Synth"
    /\ F \in SynthInputs
    /\ conv = NoConv
    /\ ProfilePath = ""
    /\ NumFuncs = 1
    /\ visited = 0
    /\ Record = NoRecord
    /\ FunctionsProcessed = 0
    /\ FunctionsSkipped = 0
    /\ submitted = <<>>
    /\ bfiRequests = 0
    /\ output = "untouched"
    /\ retval = "none"
    /\ toolMessage = FALSE
    /\ exitCode = -1

Synthesize ==
    /\ pc = "Synth"
    /\ pc' = "SynthDone"
    /\ conv' = convertBFIToCounts(F)
    /\ UNCHANGED <<ProfilePath, NumFuncs, visited, F, Record,
                   FunctionsProcessed, FunctionsSkipped, submitted,
                   bfiRequests, output, retval, toolMessage, exitCode>>

SynthNext == Synthesize

SynthSpec == SynthInit /\ [][SynthNext]_vars

(***************************************************************************)
(* tryExtractCoverageHash, computeFunctionHash                             *)
(***************************************************************************)
\* IndexedInstrProf::ComputeHash of a PGO name: a fixed hash of the name.
NameHash(name) == IF name = "f" THEN 11 ELSE 13

tryExtractCoverageHash(Fn) ==
    LET CovRec == Fn.covrec
    IN  IF /\ CovRec.present
           /\ CovRec.isStruct
           /\ Len(CovRec.ops) >= 3
           /\ CovRec.ops[3].isInt
        THEN Some(CovRec.ops[3].val)
        ELSE None

\* The optional tested by its value instead of by its presence.
computeFunctionHashByValue(Fn) ==
    LET CovHash == tryExtractCoverageHash(Fn)
    IN  IF CovHash.some /\ CovHash.val # 0 THEN CovHash.val
        ELSE NameHash(Fn.name)

computeFunctionHash(Fn) ==
    LET CovHash == tryExtractCoverageHash(Fn)
    IN  IF CovHash.some THEN CovHash.val ELSE NameHash(Fn.name)

(***************************************************************************)
(* StaticProfileExporterPass::run, called by casp-tool's main.             *)
(*   pc           where the program is: "Idle" before run, "Running" in    *)
(*                the loop over M, "Returned" after run, "Exited" after    *)
(*                main's return                                            *)
(*   NumFuncs     the number of functions of M; visited, how many of them  *)
(*                the loop has been at                                     *)
(*   F, conv, Record  the function the loop was last at, what              *)
(*                convertBFIToCounts made of it, the record built for it   *)
(*   submitted    the calls of Writer.addRecord, in order: the position of *)
(*                the function in M and whether the writer took the record *)
(*                (it did not when it called the Warn callback)            *)
(*   bfiRequests  the calls of FAM.getResult<BlockFrequencyAnalysis>       *)
(*   output       the destination: "untouched", "openFailed" (raw_fd_      *)
(*                ostream set EC), "writeFailed" (Writer.write returned an *)
(*                error), "written"                                        *)
(*   retval       what run returned                                        *)
(*   toolMessage  main printed "Static profile written to: ..."            *)
(*   exitCode     main's return value                                      *)
(***************************************************************************)
PreservedAll == "PreservedAnalyses::all"

Init ==
    /\ pc = "Idle"
    /\ ProfilePath \in {"", "output.profdata"}
    /\ NumFuncs \in 0..MaxFuncs
    /\ visited = 0
    /\ F = NoFunction
    /\ conv = NoConv
    /\ Record = NoRecord
    /\ FunctionsProcessed = 0
    /\ FunctionsSkipped = 0
    /\ submitted = <<>>
    /\ bfiRequests = 0
    /\ output = "untouched"
    /\ retval = "none"
    /\ toolMessage = FALSE
    /\ exitCode = -1

\* The early return left out: the run goes on without an output path.
RunNoPathFallsThrough ==
    /\ pc = "Idle"
    /\ ProfilePath = ""
    /\ pc' = "Running"
    /\ UNCHANGED <<ProfilePath, NumFuncs, visited, F, conv, Record,
                   FunctionsProcessed, FunctionsSkipped, submitted,
                   bfiRequests, output, retval, toolMessage, exitCode>>

\* run, lines 226-229: no output path.
RunNoPath ==
    /\ pc = "Idle"
    /\ ProfilePath = ""
    /\ pc' = "Returned"
    /\ retval' = PreservedAll
    /\ UNCHANGED <<ProfilePath, NumFuncs, visited, F, conv, Record,
                   FunctionsProcessed, FunctionsSkipped, submitted,
                   bfiRequests, output, toolMessage, exitCode>>

\* run, lines 231-235: the writer and the two counters are set up.
RunStart ==
    /\ pc = "Idle"
    /\ ProfilePath # ""
    /\ pc' = "Running"
    /\ FunctionsProcessed' = 0
    /\ FunctionsSkipped' = 0
    /\ UNCHANGED <<ProfilePath, NumFuncs, visited, F, conv, Record, submitted,
                   bfiRequests, output, retval, toolMessage, exitCode>>

\* What addRecord's Warn callback and the statement after the call do to the
\* two counters: <<FunctionsProcessed, FunctionsSkipped>> afterwards.
CountersAfterAdd(processed, skipped, accepted) ==
    <<processed + 1, IF accepted THEN skipped ELSE skipped + 1>>

\* The loop body with a rejected record handed to the writer a second time.
VisitFunctionRetrying(Fn, accepted) ==
    LET c == convertBFIToCounts(Fn)
        after == CountersAfterAdd(FunctionsProcessed, FunctionsSkipped, accepted)
        call == [fn |-> visited + 1, accepted |-> accepted]
    IN  /\ pc = "Running"
        /\ visited < NumFuncs
        /\ visited' = visited + 1
        /\ F' = Fn
        /\ IF Fn.decl
           THEN /\ conv' = NoConv
                /\ Record' = NoRecord
                /\ UNCHANGED <<FunctionsProcessed, FunctionsSkipped,
                               submitted, bfiRequests>>
           ELSE /\ bfiRequests' = bfiRequests + 1
                /\ conv' = c
                /\ IF ~c.ok
                   THEN /\ FunctionsSkipped' = FunctionsSkipped + 1
                        /\ Record' = NoRecord
                        /\ UNCHANGED <<FunctionsProcessed, submitted>>
                   ELSE /\ Record' = [name |-> Fn.name,
                                      hash |-> computeFunctionHash(Fn),
                                      counts |-> c.Counts]
                        /\ submitted' = IF accepted
                                        THEN submitted \o <<call>>
                                        ELSE submitted \o <<call, call>>
                        /\ FunctionsProcessed' = after[1]
                        /\ FunctionsSkipped' = after[2]
        /\ UNCHANGED <<pc, ProfilePath, NumFuncs, output, retval,
                       toolMessage, exitCode>>

\* One iteration of `for (Function &F : M)`, lines 237-271. Fn is the next
\* function of M; accepted is whether Writer.addRecord takes the record.
VisitFunction(Fn, accepted) ==
    LET c == convertBFIToCounts(Fn)
        after == CountersAfterAdd(FunctionsProcessed, FunctionsSkipped, accepted)
    IN  /\ pc = "Running"
        /\ visited < NumFuncs
        /\ visited' = visited + 1
        /\ F' = Fn
        /\ IF Fn.decl
           THEN /\ conv' = NoConv
                /\ Record' = NoRecord
                /\ UNCHANGED <<FunctionsProcessed, FunctionsSkipped,
                               submitted, bfiRequests>>
           ELSE /\ bfiRequests' = bfiRequests + 1
                /\ conv' = c
                /\ IF ~c.ok
                   THEN /\ FunctionsSkipped' = FunctionsSkipped + 1
                        /\ Record' = NoRecord
                        /\ UNCHANGED <<FunctionsProcessed, submitted>>
                   ELSE /\ Record' = [name |-> Fn.name,
                                      hash |-> computeFunctionHash(Fn),
                                      counts |-> c.Counts]
                        /\ submitted' = Append(submitted,
                                               [fn |-> visited + 1,
                                                accepted |-> accepted])
                        /\ FunctionsProcessed' = after[1]
                        /\ FunctionsSkipped' = after[2]
        /\ UNCHANGED <<pc, ProfilePath, NumFuncs, output, retval,
                       toolMessage, exitCode>>

\* run after the loop, lines 273-300. openOK: raw_fd_ostream opened the
\* file; writeOK: Writer.write returned success.
Finalize(openOK, writeOK) ==
    /\ pc = "Running"
    /\ visited = NumFuncs
    /\ pc' = "Returned"
    /\ output' = IF FunctionsProcessed = 0 THEN output
                 ELSE IF ~openOK THEN "openFailed"
                 ELSE IF ~writeOK THEN "writeFailed"
                 ELSE "written"
    /\ retval' = PreservedAll
    /\ UNCHANGED <<ProfilePath, NumFuncs, visited, F, conv, Record,
                   FunctionsProcessed, FunctionsSkipped, submitted,
                   bfiRequests, toolMessage, exitCode>>

\* main after MPM.run, casp-tool.cpp lines 91-94.
MainReport ==
    /\ pc = "Returned"
    /\ pc' = "Exited"
    /\ toolMessage' = TRUE
    /\ exitCode' = 0
    /\ UNCHANGED <<ProfilePath, NumFuncs, visited, F, conv, Record,
                   FunctionsProcessed, FunctionsSkipped, submitted,
                   bfiRequests, output, retval>>

Next ==
    \/ RunNoPath
    \/ RunStart
    \/ \E Fn \in DriverInputs, accepted \in BOOLEAN : VisitFunction(Fn, accepted)
    \/ \E openOK, writeOK \in BOOLEAN : Finalize(openOK, writeOK)
    \/ MainReport

Spec == Init /\ [][Next]_vars

(***************************************************************************)
(* Properties of the synthesis (checked under SynthSpec).                  *)
(***************************************************************************)
SynthDone == pc = "SynthDone"
EntryFreqOf(Fn) == Fn.blocks[1]
HintOf(Fn) == tryExtractCounterCount(Fn)
Instrumented == SynthDone /\ ~IsZero(EntryFreqOf(F)) /\ HintOf(F).some
Uninstrumented == SynthDone /\ ~IsZero(EntryFreqOf(F)) /\ ~HintOf(F).some

\* The code's slot i (0-based) of the synthesized vector.
Slot(i) == conv.Counts[i + 1]

\* floor(100 * f / e) in exact arithmetic, five limbs wide.
ExactScaled(f, e) == Div(MulSmall(f, DefaultEntryCount), e)

\* The per-block scaled values as the code computes them, in block order.
ScaledOf(Fn) ==
    [i \in 1..Len(Fn.blocks) |-> ScaledCount(Fn.blocks[i], EntryFreqOf(Fn))]

\* v is the element at 0-based position k of s sorted in descending order:
\* fewer than k+1 elements of s are above v and at least k+1 are not below.
IsKthLargest(v, k, s) ==
    /\ \E j \in 1..Len(s) : s[j] = v
    /\ Cardinality({j \in 1..Len(s) : Less(v, s[j])}) <= k
    /\ Cardinality({j \in 1..Len(s) : ~Less(s[j], v)}) >= k + 1

Min(a, b) == IF a <= b THEN a ELSE b

\* C2 as claimed: on the instrumented path the vector has length exactly N,
\* for every N (N = 0 included), and slot 0 holds DefaultEntryCount.
C2_LengthIsHint ==
    Instrumented =>
        /\ Len(conv.Counts) = HintOf(F).val
        /\ conv.Counts[1] = U64(DefaultEntryCount)

\* C2 amended: on the instrumented path the vector has length N when N >= 1
\* and length 1 when N = 0, and slot 0 holds DefaultEntryCount.
C2_LengthIsHintOrOne ==
    Instrumented =>
        /\ conv.ok
        /\ Len(conv.Counts) = (IF HintOf(F).val = 0 THEN 1 ELSE HintOf(F).val)
        /\ Slot(0) = U64(DefaultEntryCount)

C2_Witness ==
    /\ Instrumented
    /\ HintOf(F).val = 0
    /\ Len(F.blocks) = 2
    /\ conv.Counts = <<U64(DefaultEntryCount)>>

\* C3 as claimed: on the uninstrumented path there is one slot per block, in
\* block order, and slot i holds floor(100 * freq(blocks[i]) / entryFreq).
C3_PerBlockExactFloor ==
    Uninstrumented =>
        /\ Len(conv.Counts) = Len(F.blocks)
        /\ \A i \in 0..(Len(F.blocks) - 1) :
              Widen(Slot(i), U64Limbs + 1)
                  = ExactScaled(F.blocks[i + 1], EntryFreqOf(F))

\* C4 as claimed: every padding slot i holds 100 / (i + 1), and the padding
\* values strictly decrease as i grows.
C4_PaddingStrictlyDecreasing ==
    Instrumented /\ HintOf(F).val > Len(F.blocks) =>
        LET Pad == Len(F.blocks)..(HintOf(F).val - 1)
        IN  /\ \A i \in Pad : Slot(i) = U64(DefaultEntryCount \div (i + 1))
            /\ \A i, j \in Pad : i < j => Less(Slot(j), Slot(i))

\* C4 amended: every padding slot i holds 100 / (i + 1), and the padding
\* values never increase as i grows.
C4_PaddingNonIncreasing ==
    Instrumented /\ HintOf(F).val > Len(F.blocks) =>
        LET Pad == Len(F.blocks)..(HintOf(F).val - 1)
        IN  /\ \A i \in Pad : Slot(i) = U64(DefaultEntryCount \div (i + 1))
            /\ \A i, j \in Pad : i < j => ~Less(Slot(i), Slot(j))

C4_Witness ==
    /\ Instrumented
    /\ HintOf(F).val = 14
    /\ Len(F.blocks) = 2
    /\ Slot(12) = Slot(13)
    /\ Less(Slot(3), Slot(2))

\* C5: on the instrumented path every slot i with 1 <= i < min(N, blocks)
\* holds element i of the scaled values sorted in descending order, and when
\* N <= blocks the slots after slot 0 never increase.
C5_SlotsFromSortedList ==
    Instrumented =>
        LET N == HintOf(F).val
            S == ScaledOf(F)
        IN  /\ \A i \in 1..(Min(N, Len(F.blocks)) - 1) :
                  IsKthLargest(Slot(i), i, S)
            /\ N <= Len(F.blocks) =>
                  \A i, j \in 1..(N - 1) : i < j => ~Less(Slot(i), Slot(j))

C5_Witness ==
    /\ Instrumented
    /\ HintOf(F).val = 3
    /\ Len(F.blocks) = 3
    /\ Less(ScaledOf(F)[2], ScaledOf(F)[3])
    /\ Slot(1) = ScaledOf(F)[1]
    /\ Slot(2) = ScaledOf(F)[2]
    /\ Less(Slot(2), Slot(1))

(***************************************************************************)
(* Properties of the run (checked under Spec).                             *)
(***************************************************************************)
RunOver == pc \in {"Returned", "Exited"}
Accepted == {k \in 1..Len(submitted) : submitted[k].accepted}
OutputFailed == output \in {"openFailed", "writeFailed"}

\* C1: every function with a body moves exactly one of the two counters, by
\* one: FunctionsSkipped when the synthesis fails or the writer rejects the
\* record, FunctionsProcessed when the writer accepts it. So the counters add
\* up to the bodies visited and FunctionsProcessed counts the accepted
\* records.
C1_OneCounterPerBody ==
    /\ FunctionsProcessed + FunctionsSkipped = bfiRequests
    /\ FunctionsProcessed = Cardinality(Accepted)

\* C6: a function whose entry block has frequency 0, with or without a
\* counter count, fails the synthesis before any division by the entry
\* frequency; no record is submitted for it, FunctionsSkipped goes up by one,
\* FunctionsProcessed stays, and the loop goes on.
C6_ZeroEntryFrequencySkips ==
    [][(visited' = visited + 1 /\ ~F'.decl /\ IsZero(EntryFreqOf(F')))
          => /\ ~conv'.ok
             /\ conv'.entryDivs = 0
             /\ Record' = NoRecord
             /\ submitted' = submitted
             /\ FunctionsSkipped' = FunctionsSkipped + 1
             /\ FunctionsProcessed' = FunctionsProcessed
             /\ pc' = "Running"]_vars

C6_Witness ==
    /\ pc = "Running"
    /\ NumFuncs = 2
    /\ visited = 1
    /\ ~F.decl
    /\ IsZero(EntryFreqOf(F))
    /\ HintOf(F).some
    /\ FunctionsSkipped = 1
    /\ FunctionsProcessed = 0
    /\ submitted = <<>>

\* C7: when no record was accepted by the writer, the run is over without
\* the destination having been opened or written, and it returned normally.
C7_NoAcceptedRecordNoOutput ==
    (RunOver /\ Accepted = {}) =>
        /\ output = "untouched"
        /\ retval = PreservedAll

\* C8: with an empty output path the run returns at once: no function is
\* visited, no frequency analysis requested, no record submitted, the
\* destination is left alone, and the run returns as a success.
C8_EmptyPathIsNoOp ==
    ProfilePath = "" =>
        /\ pc \in {"Idle", "Returned", "Exited"}
        /\ visited = 0
        /\ bfiRequests = 0
        /\ submitted = <<>>
        /\ output = "untouched"
        /\ RunOver => retval = PreservedAll
        /\ pc = "Exited" => exitCode = 0

C8_Witness ==
    /\ ProfilePath = ""
    /\ pc = "Returned"
    /\ NumFuncs = 2
    /\ visited = 0
    /\ retval = PreservedAll

\* C9: when opening the destination or writing to it fails, run returns
\* something other than what a successful run returns, and the tool does not
\* report the profile as written.
C9_OutputFailureSurfaces ==
    /\ (RunOver /\ OutputFailed) => retval # PreservedAll
    /\ (pc = "Exited" /\ OutputFailed) => (~toolMessage /\ exitCode # 0)

\* C10: the hash of a function's record is the structural hash whenever
\* tryExtractCoverageHash returns one and the name hash when it returns
\* nothing; a function whose synthesis succeeded gets its record submitted
\* whether or not it has coverage metadata.
C10_StructuralHashPreferred ==
    (visited > 0 /\ ~F.decl /\ conv.ok) =>
        LET CovHash == tryExtractCoverageHash(F)
        IN  /\ Record # NoRecord
            /\ CovHash.some => Record.hash = CovHash.val
            /\ ~CovHash.some => Record.hash = NameHash(F.name)
            /\ submitted # <<>>
            /\ submitted[Len(submitted)].fn = visited

C10_Witness ==
    /\ visited > 0
    /\ ~F.decl
    /\ conv.ok
    /\ F.covrec = CovRecWith(IntOp(0))
    /\ Record # NoRecord
    /\ Record.hash = 0
    /\ NameHash(F.name) # 0

\* C11: the calls of Writer.addRecord follow the order of the functions in M:
\* a visit of a function with a body whose synthesis succeeds adds exactly
\* one call, for that function, whether the writer takes the record or not;
\* a visit of a declaration or of a function whose synthesis fails adds
\* none, and so does every other step. So the calls are in strictly
\* increasing position order: no function is submitted twice, and a rejected
\* record is not submitted again.
C11_OneSubmissionInOrder ==
    /\ [](\A k \in 1..Len(submitted) :
              /\ submitted[k].fn \in 1..visited
              /\ \A j \in 1..(k - 1) : submitted[j].fn < submitted[k].fn)
    /\ [][IF visited' = visited + 1 /\ ~F'.decl /\ conv'.ok
          THEN /\ Len(submitted') = Len(submitted) + 1
               /\ SubSeq(submitted', 1, Len(submitted)) = submitted
               /\ submitted'[Len(submitted')].fn = visited'
          ELSE submitted' = submitted]_vars

C11_Witness ==
    /\ NumFuncs = 2
    /\ visited = 2
    /\ Len(submitted) = 2
    /\ submitted[1].fn = 1
    /\ ~submitted[1].accepted
    /\ submitted[2].fn = 2
    /\ submitted[2].accepted

\* C12: the scaling never overflows: for every block of a function with a
\* nonzero entry frequency the product DefaultEntryCount * freq computed in
\* uint64_t is the exact product, so the scaled value is the exact
\* floor(100 * freq / entryFreq), on the instrumented and on the
\* uninstrumented path alike.
C12_ScalingNeverOverflows ==
    (SynthDone /\ ~IsZero(EntryFreqOf(F))) =>
        \A i \in 1..Len(F.blocks) :
            LET Product == MulSmall(F.blocks[i], DefaultEntryCount)
            IN  /\ Widen(Wrap(Product, U64Limbs), U64Limbs + 1) = Product
                /\ Widen(ScaledOf(F)[i], U64Limbs + 1)
                       = ExactScaled(F.blocks[i], EntryFreqOf(F))
                /\ ~HintOf(F).some =>
                       Widen(conv.Counts[i], U64Limbs + 1)
                           = ExactScaled(F.blocks[i], EntryFreqOf(F))

====
